---- MODULE Spec2Model ----
(***************************************************************************)
(* Model of src/functions.py: the Medicare Advantage CSV readers, the      *)
(* month loaders and the premium merge (pandas semantics).                 *)
(*                                                                         *)
(* Values.  A table cell is NA (pandas NaN / None), a number Num(n), a     *)
(* text Txt(s) with s a sequence of one-character strings, or a boolean    *)
(* Bool(b).  Text decoded from raw file bytes is Str(cp), cp a sequence of *)
(* Unicode code points.  A table is a sequence of rows (records); a file   *)
(* is NoFile or the sequence of its data rows (the header line, which      *)
(* every reader skips with skiprows=1, is not represented).                *)
(***************************************************************************)
EXTENDS Integers, Sequences, FiniteSets, TLC

VARIABLES
    files,      \* the period files on disk: [contract, enroll, sa, pen]
    ret,        \* what the last reader / loader call did: attempts, status, table
    ma_data,    \* the caller's main table handed to mapd_clean_merge
    mapd_data,  \* the caller's secondary table handed to mapd_clean_merge
    loc,        \* the locals of the last mapd_clean_merge call
    out,        \* the table the last mapd_clean_merge call returned
    ncalls      \* how many times mapd_clean_merge was called

vars == <<files, ret, ma_data, mapd_data, loc, out, ncalls>>

----------------------------------------------------------------------------
(* Bounds of the model *)

MaxBytes == 2        \* bytes of an org_name cell
MaxReadRows == 1     \* rows of the contract file in the reader specification
MaxCells == 2        \* rows of another file in the reader specification
MaxCellLen == 3      \* characters of a penetration cell
MaxFileRows == 3     \* rows of the contract and enrollment files together
MaxSideRows == 2     \* rows of a service-area or penetration file
MaxRows == 3         \* rows of the main and secondary premium tables together
MaxCalls == 2        \* calls of mapd_clean_merge in a row

----------------------------------------------------------------------------
(* Cell values *)

NA == [na |-> TRUE]
Num(n) == [num |-> n]
Txt(s) == [txt |-> s]
Str(cp) == [str |-> cp]
Bool(b) == [bool |-> b]

IsNA(v) == v = NA
IsNum(v) == "num" \in DOMAIN v
IsTxt(v) == "txt" \in DOMAIN v

\* A file of the period directory: absent, or the sequence of its data rows.
NoFile == [exists |-> FALSE, rows |-> <<>>]
File(rows) == [exists |-> TRUE, rows |-> rows]

Range(s) == {s[i] : i \in 1..Len(s)}

SeqsUpTo(S, n) == UNION {[1..k -> S] : k \in 0..n}

RECURSIVE FilterSeq(_, _)
\* the elements of s (in order) whose index is in keep
FilterSeq(s, keep) ==
    IF s = <<>> THEN <<>>
    ELSE LET front == FilterSeq(SubSeq(s, 1, Len(s) - 1), keep)
         IN  IF Len(s) \in keep THEN Append(front, s[Len(s)]) ELSE front

----------------------------------------------------------------------------
(* Text to number *)

Digit == {"0", "1", "2", "3", "4", "5", "6", "7", "8", "9"}

DigitVal(c) ==
    CASE c = "0" -> 0 [] c = "1" -> 1 [] c = "2" -> 2 [] c = "3" -> 3
      [] c = "4" -> 4 [] c = "5" -> 5 [] c = "6" -> 6 [] c = "7" -> 7
      [] c = "8" -> 8 [] c = "9" -> 9

IsDigits(s) == Len(s) >= 1 /\ \A i \in 1..Len(s) : s[i] \in Digit

RECURSIVE DigitsVal(_)
DigitsVal(s) ==
    IF s = <<>> THEN 0
    ELSE 10 * DigitsVal(SubSeq(s, 1, Len(s) - 1)) + DigitVal(s[Len(s)])

\* Whether a text is a (signed) decimal integer literal, and its value.
\* (The alphabets of the model hold no ".", "e" or blank, so integer
\* literals are all the numeric literals there are.)
IsNumeral(s) ==
    \/ IsDigits(s)
    \/ Len(s) >= 2 /\ s[1] \in {"-", "+"} /\ IsDigits(Tail(s))

NumeralVal(s) ==
    IF IsDigits(s) THEN DigitsVal(s)
    ELSE IF s[1] = "-" THEN 0 - DigitsVal(Tail(s)) ELSE DigitsVal(Tail(s))

\* pd.to_numeric(..., errors="coerce") on one value
ToNumericCoerce(v) ==
    IF IsTxt(v)
    THEN IF IsNumeral(v.txt) THEN Num(NumeralVal(v.txt)) ELSE NA
    ELSE v

\* Python's int(m)
PyIntOk(m) == IsNum(m) \/ (IsTxt(m) /\ IsNumeral(m.txt))
PyInt(m) == IF IsNum(m) THEN m.num ELSE NumeralVal(m.txt)

----------------------------------------------------------------------------
(* Decoding the bytes of a file (the encoding= argument of pd.read_csv) *)

IsCont(b) == b >= 128 /\ b <= 191

\* The number of bytes of the UTF-8 sequence at the head of b, 0 when the
\* head is no well-formed sequence (RFC 3629).
Utf8Len(b) ==
    LET b1 == b[1] n == Len(b) IN
    IF b1 < 128 THEN 1
    ELSE IF b1 >= 194 /\ b1 <= 223
    THEN IF n >= 2 /\ IsCont(b[2]) THEN 2 ELSE 0
    ELSE IF b1 >= 224 /\ b1 <= 239
    THEN IF /\ n >= 3 /\ IsCont(b[2]) /\ IsCont(b[3])
            /\ (b1 = 224 => b[2] >= 160)
            /\ (b1 = 237 => b[2] <= 159)
         THEN 3 ELSE 0
    ELSE IF b1 >= 240 /\ b1 <= 244
    THEN IF /\ n >= 4 /\ IsCont(b[2]) /\ IsCont(b[3]) /\ IsCont(b[4])
            /\ (b1 = 240 => b[2] >= 144)
            /\ (b1 = 244 => b[2] <= 143)
         THEN 4 ELSE 0
    ELSE 0

Utf8Point(b, k) ==
    CASE k = 1 -> b[1]
      [] k = 2 -> (b[1] - 192) * 64 + (b[2] - 128)
      [] k = 3 -> (b[1] - 224) * 4096 + (b[2] - 128) * 64 + (b[3] - 128)
      [] k = 4 -> (b[1] - 240) * 262144 + (b[2] - 128) * 4096
                  + (b[3] - 128) * 64 + (b[4] - 128)

RECURSIVE Utf8Valid(_)
Utf8Valid(b) ==
    IF b = <<>> THEN TRUE
    ELSE LET k == Utf8Len(b)
         IN  k > 0 /\ Utf8Valid(SubSeq(b, k + 1, Len(b)))

RECURSIVE Utf8Decode(_)
Utf8Decode(b) ==
    IF b = <<>> THEN <<>>
    ELSE LET k == Utf8Len(b)
         IN  <<Utf8Point(b, k)>> \o Utf8Decode(SubSeq(b, k + 1, Len(b)))

\* Latin-1 maps every byte to the code point of the same number: it
\* never fails.
Latin1Decode(b) == b

DecodeOk(b, enc) == IF enc = "utf-8" THEN Utf8Valid(b) ELSE TRUE
Decode(b, enc) == IF enc = "utf-8" THEN Utf8Decode(b) ELSE Latin1Decode(b)

----------------------------------------------------------------------------
(* Cell conversion of pd.read_csv: na_values and dtype *)

\* pandas' default missing-value tokens that the alphabets of the model
\* can spell (keep_default_na stays True in every reader).
DefaultNA == {<<>>, <<"N", "A">>}
Star == {<<"*">>}
PenNA == {<<>>, <<"N", "A">>, <<"*">>, <<"-">>, <<"-", "-">>}

\* a dtype=str column
StrCell(s, extra) == IF s \in DefaultNA \cup extra THEN NA ELSE Txt(s)

\* a dtype=float column: a cell that is neither a missing-value token nor a
\* number makes the read raise ValueError
FloatCellOk(s, extra) == s \in DefaultNA \cup extra \/ IsNumeral(s)
FloatCell(s, extra) ==
    IF s \in DefaultNA \cup extra THEN NA ELSE Num(NumeralVal(s))

\* a dtype=str column of raw bytes
BytesCell(b, enc) == IF b = <<>> THEN NA ELSE Str(Decode(b, enc))

----------------------------------------------------------------------------
(* read_contract *)

ContractTypeOk(row) == FloatCellOk(row.planid, {})

ContractRow(row, enc) ==
    [contractid |-> StrCell(row.contractid, {}),
     planid     |-> FloatCell(row.planid, {}),
     org_name   |-> BytesCell(row.org_name, enc)]

(* read_enroll *)

EnrollTypeOk(row) ==
    /\ FloatCellOk(row.planid, Star)
    /\ FloatCellOk(row.ssa, Star)
    /\ FloatCellOk(row.fips, Star)
    /\ FloatCellOk(row.enrollment, Star)

EnrollRow(row) ==
    [contractid |-> StrCell(row.contractid, Star),
     planid     |-> FloatCell(row.planid, Star),
     ssa        |-> FloatCell(row.ssa, Star),
     fips       |-> FloatCell(row.fips, Star),
     state      |-> StrCell(row.state, Star),
     county     |-> StrCell(row.county, Star),
     enrollment |-> FloatCell(row.enrollment, Star)]

(* read_service_area *)

SaTypeOk(row) == FloatCellOk(row.ssa, Star) /\ FloatCellOk(row.fips, Star)

\* df["partial"].map({"TRUE": True, "FALSE": False})
PartialMap(v) ==
    IF v = Txt(<<"T", "R", "U", "E">>) THEN Bool(TRUE)
    ELSE IF v = Txt(<<"F", "A", "L", "S", "E">>) THEN Bool(FALSE)
    ELSE NA

SaRow(row) ==
    [contractid |-> StrCell(row.contractid, Star),
     partial    |-> PartialMap(StrCell(row.partial, Star)),
     ssa        |-> FloatCell(row.ssa, Star),
     fips       |-> FloatCell(row.fips, Star)]

(* read_penetration *)

RECURSIVE StrReplace(_, _)
\* Series.str.replace(c, "") on one text
StrReplace(s, c) ==
    IF s = <<>> THEN <<>>
    ELSE IF s[1] = c THEN StrReplace(Tail(s), c)
    ELSE <<s[1]>> \o StrReplace(Tail(s), c)

\* a cleanup that forgets the percent sign
StripCommaOnly(v) ==
    IF IsTxt(v) THEN Txt(StrReplace(v.txt, ",")) ELSE v

\* .str.replace(",", "").str.replace("%", ""): a missing value stays missing
StripCommaPercent(v) ==
    IF IsTxt(v) THEN Txt(StrReplace(StrReplace(v.txt, ","), "%")) ELSE v

PenNumeric(s) == ToNumericCoerce(StripCommaPercent(StrCell(s, PenNA)))

PenRow(row) ==
    [state       |-> StrCell(row.state, PenNA),
     county      |-> StrCell(row.county, PenNA),
     eligibles   |-> PenNumeric(row.eligibles),
     enrolled    |-> PenNumeric(row.enrolled),
     penetration |-> PenNumeric(row.penetration)]

----------------------------------------------------------------------------
(* _read_csv_with_fallback *)

RowDecodeOk(kind, row, enc) ==
    IF kind = "contract" THEN DecodeOk(row.org_name, enc) ELSE TRUE

RowTypeOk(kind, row) ==
    CASE kind = "contract" -> ContractTypeOk(row)
      [] kind = "enroll"   -> EnrollTypeOk(row)
      [] kind = "sa"       -> SaTypeOk(row)
      [] kind = "pen"      -> TRUE

ConvertRow(kind, row, enc) ==
    CASE kind = "contract" -> ContractRow(row, enc)
      [] kind = "enroll"   -> EnrollRow(row)
      [] kind = "sa"       -> SaRow(row)
      [] kind = "pen"      -> PenRow(row)

Raised(err) == [status |-> "raised", error |-> err, table |-> <<>>]
Returned(t) == [status |-> "ok", error |-> "none", table |-> t]

\* One pd.read_csv(path, encoding=enc, **kwargs): the set of its possible
\* outcomes.  When a file has both undecodable bytes and a malformed float
\* cell, which of the two errors surfaces depends on the order in which the
\* parser reaches them: either may.
ReadCsv(file, kind, enc) ==
    IF ~file.exists THEN {Raised("FileNotFoundError")}
    ELSE LET rows     == file.rows
             badBytes == \E i \in 1..Len(rows) : ~RowDecodeOk(kind, rows[i], enc)
             badType  == \E i \in 1..Len(rows) : ~RowTypeOk(kind, rows[i])
         IN  IF badBytes \/ badType
             THEN {Raised(e) : e \in
                     {x \in {"UnicodeDecodeError", "ValueError"} :
                         \/ x = "UnicodeDecodeError" /\ badBytes
                         \/ x = "ValueError" /\ badType}}
             ELSE {Returned([i \in 1..Len(rows) |-> ConvertRow(kind, rows[i], enc)])}

\* an except clause that catches every error
CaughtAny(err) == err # "none"

\* the except clause of line 16
Caught(err) == err = "UnicodeDecodeError"

\* The set of possible outcomes of _read_csv_with_fallback, each with the
\* encodings attempted (in order) and the error of the first attempt.
ReadCsvWithFallback(file, kind) ==
    UNION {
        IF Caught(a1.error)
        THEN {[attempts |-> <<"utf-8", "latin-1">>, first |-> a1.error,
               status |-> a2.status, error |-> a2.error, table |-> a2.table]
                 : a2 \in ReadCsv(file, kind, "latin-1")}
        ELSE {[attempts |-> <<"utf-8">>, first |-> a1.error,
               status |-> a1.status, error |-> a1.error, table |-> a1.table]}
        : a1 \in ReadCsv(file, kind, "utf-8")}

----------------------------------------------------------------------------
(* The typed readers: each is _read_csv_with_fallback with its own options *)

read_contract(file) == ReadCsvWithFallback(file, "contract")
read_enroll(file) == ReadCsvWithFallback(file, "enroll")
read_service_area(file) == ReadCsvWithFallback(file, "sa")
read_penetration(file) == ReadCsvWithFallback(file, "pen")

Idle == [fn |-> "none"]
NoFiles == [contract |-> NoFile, enroll |-> NoFile, sa |-> NoFile, pen |-> NoFile]
NoLocals == [called |-> FALSE]

----------------------------------------------------------------------------
(* Inputs *)

H1 == <<"H", "1">>
H2 == <<"H", "2">>

\* org_name bytes: "A", and the bytes of e-acute in UTF-8 (195 169) and in
\* Latin-1 (233)
NameBytes == {65, 195, 169, 233}
PlanCells == {<<"1">>, <<>>, <<"x">>}

ReadContractRows ==
    {[contractid |-> H1, planid |-> p, org_name |-> b] :
        p \in PlanCells, b \in SeqsUpTo(NameBytes, MaxBytes)}

ReadEnrollRows ==
    {[contractid |-> H1, planid |-> p, ssa |-> <<"1">>, fips |-> <<"1">>,
      state |-> <<"A">>, county |-> <<"X">>, enrollment |-> e] :
        p \in PlanCells, e \in {<<"5">>, <<"*">>, <<"x">>}}

PartialCells ==
    {<<"T", "R", "U", "E">>, <<"F", "A", "L", "S", "E">>, <<"t", "r", "u", "e">>,
     <<"Y", "e", "s">>, <<>>, <<"*">>}

SaRows ==
    {[contractid |-> H1, partial |-> t, ssa |-> s, fips |-> <<"1">>] :
        t \in PartialCells, s \in {<<"1">>, <<"*">>, <<"x">>}}

PenChars == {"1", "2", ",", "%", "-", "*", "N", "A"}
PenCells == SeqsUpTo(PenChars, MaxCellLen)
PenCols == {"eligibles", "enrolled", "penetration"}

\* a penetration row with the cell c in the column col
PenRowWith(col, c) ==
    [state |-> <<"A">>, county |-> <<"X">>,
     eligibles   |-> IF col = "eligibles" THEN c ELSE <<"1">>,
     enrolled    |-> IF col = "enrolled" THEN c ELSE <<"1">>,
     penetration |-> IF col = "penetration" THEN c ELSE <<"1">>]

----------------------------------------------------------------------------
(* Specification of the readers *)

Untouched == UNCHANGED <<files, ma_data, mapd_data, loc, out, ncalls>>

\* one period file is on disk, the others are absent
InitRead ==
    /\ \/ \E k \in 0..MaxReadRows : \E r \in [1..k -> ReadContractRows] :
             files = [NoFiles EXCEPT !.contract = File(r)]
       \/ \E k \in 0..MaxCells : \E r \in [1..k -> ReadEnrollRows] :
             files = [NoFiles EXCEPT !.enroll = File(r)]
       \/ \E k \in 0..MaxCells : \E r \in [1..k -> SaRows] :
             files = [NoFiles EXCEPT !.sa = File(r)]
       \/ \E col \in PenCols, c \in PenCells :
             files = [NoFiles EXCEPT !.pen = File(<<PenRowWith(col, c)>>)]
    /\ ret = Idle
    /\ ma_data = <<>> /\ mapd_data = <<>>
    /\ loc = NoLocals /\ out = <<>> /\ ncalls = 0

Reader(fn, outcomes) ==
    /\ ret = Idle
    /\ \E o \in outcomes : ret' = [fn |-> fn, attempts |-> o.attempts,
                                   first |-> o.first, status |-> o.status,
                                   error |-> o.error, table |-> o.table]
    /\ Untouched

ReadContract == Reader("read_contract", read_contract(files.contract))
ReadEnroll == Reader("read_enroll", read_enroll(files.enroll))
ReadServiceArea == Reader("read_service_area", read_service_area(files.sa))
ReadPenetration == Reader("read_penetration", read_penetration(files.pen))

NextRead == ReadContract \/ ReadEnroll \/ ReadServiceArea \/ ReadPenetration

SpecRead == InitRead /\ [][NextRead]_vars

----------------------------------------------------------------------------
(* Table operations of pandas used by the loaders and the merge *)

\* Two rows agree on the key columns.  pandas treats two missing key
\* values as equal, in drop_duplicates and in merge alike.
SameKey(a, b, keys) == \A k \in keys : a[k] = b[k]

\* no de-duplication at all
DropDuplicatesNone(T, keys) == T

\* DataFrame.drop_duplicates(subset=keys, keep="first")
DropDuplicates(T, keys) ==
    FilterSeq(T, {i \in 1..Len(T) :
                    \A j \in 1..(i - 1) : ~SameKey(T[j], T[i], keys)})

\* the rows of R that join with the row l
Matches(l, R, keys) ==
    FilterSeq(R, {j \in 1..Len(R) : SameKey(l, R[j], keys)})

NARow(cols) == [c \in cols |-> NA]

\* what a left row contributes to an inner join
InnerJoinRow(l, R, keys, rcols) ==
    LET m == Matches(l, R, keys)
    IN  [j \in 1..Len(m) |-> l @@ m[j]]

\* what a left row contributes to a left (or outer) join: one row per
\* match, or the row itself with the right-hand columns missing
LeftJoinRow(l, R, keys, rcols) ==
    LET m == Matches(l, R, keys)
    IN  IF m = <<>> THEN <<l @@ NARow(rcols)>>
        ELSE [j \in 1..Len(m) |-> l @@ m[j]]

RECURSIVE LeftMerge(_, _, _, _)
\* L.merge(R, on=keys, how="left"); rcols are R's columns besides the keys
LeftMerge(L, R, keys, rcols) ==
    IF L = <<>> THEN <<>>
    ELSE LeftMerge(SubSeq(L, 1, Len(L) - 1), R, keys, rcols)
         \o LeftJoinRow(L[Len(L)], R, keys, rcols)

\* a stamp that stores m as supplied
StampRawMonth(T, m, y) ==
    [i \in 1..Len(T) |-> T[i] @@ [month |-> m, year |-> y]]

\* df["month"] = int(m); df["year"] = y
Stamp(T, m, y) ==
    [i \in 1..Len(T) |-> T[i] @@ [month |-> Num(PyInt(m)), year |-> y]]

----------------------------------------------------------------------------
(* The month loaders *)

PairKey == {"contractid", "planid"}
EnrollCols == {"ssa", "fips", "state", "county", "enrollment"}

LoadFailed(err) ==
    [status |-> "raised", error |-> err, table |-> <<>>,
     contract_read |-> <<>>, contract_info |-> <<>>, enroll_info |-> <<>>]

\* The possible outcomes of load_month(m, y), with the tables it held on
\* the way: the contract table as read, after drop_duplicates, and the
\* enrollment table.
load_month(fs, m, y) ==
    UNION {
        IF c.status = "raised" THEN {LoadFailed(c.error)}
        ELSE UNION {
            IF e.status = "raised" THEN {LoadFailed(e.error)}
            ELSE IF ~PyIntOk(m) THEN {LoadFailed("ValueError")}
            ELSE LET contract_info == DropDuplicates(c.table, PairKey)
                     merged == LeftMerge(contract_info, e.table, PairKey, EnrollCols)
                 IN  {[status |-> "ok", error |-> "none",
                       table |-> Stamp(merged, m, y),
                       contract_read |-> c.table,
                       contract_info |-> contract_info,
                       enroll_info |-> e.table]}
            : e \in read_enroll(fs.enroll)}
        : c \in read_contract(fs.contract)}

\* load_month_sa and load_month_pen: read, then stamp
LoadStamp(outcomes, m, y) ==
    {IF r.status = "raised" THEN Raised(r.error)
     ELSE IF ~PyIntOk(m) THEN Raised("ValueError")
     ELSE Returned(Stamp(r.table, m, y)) : r \in outcomes}

load_month_sa(fs, m, y) == LoadStamp(read_service_area(fs.sa), m, y)
load_month_pen(fs, m, y) == LoadStamp(read_penetration(fs.pen), m, y)

----------------------------------------------------------------------------
(* Specification of the month loaders *)

Months == {Num(1), Txt(<<"0", "1">>), Txt(<<"x">>)}
Years == {Num(2015), Txt(<<"2", "0", "1", "5">>)}

LoadContractRows ==
    {[contractid |-> c, planid |-> p, org_name |-> b] :
        c \in {H1, H2}, p \in {<<"1">>, <<>>}, b \in {<<65>>, <<233>>}}

LoadEnrollRows ==
    {[contractid |-> c, planid |-> p, ssa |-> g.ssa, fips |-> g.fips,
      state |-> g.state, county |-> g.county, enrollment |-> g.enrollment] :
        c \in {H1, H2}, p \in {<<"1">>, <<>>},
        g \in {[ssa |-> <<"1">>, fips |-> <<"1">>, state |-> <<"A">>,
                county |-> <<"X">>, enrollment |-> <<"5">>],
               [ssa |-> <<"2">>, fips |-> <<"2">>, state |-> <<"A">>,
                county |-> <<"Y">>, enrollment |-> <<"*">>]}}

LoadSaRows ==
    {[contractid |-> H1, partial |-> t, ssa |-> <<"1">>, fips |-> <<"1">>] :
        t \in {<<"T", "R", "U", "E">>, <<"F", "A", "L", "S", "E">>, <<>>}}

LoadPenRows == {PenRowWith("enrolled", c) : c \in {<<"1", ",", "2">>, <<"*">>}}

\* the lengths a contract and an enrollment file may have together
FileLens == {kj \in (0..MaxFileRows) \X (0..MaxFileRows) : kj[1] + kj[2] <= MaxFileRows}

\* the contract and enrollment files of a period are on disk, or its
\* service-area file, or its penetration file
InitLoad ==
    /\ \/ \E kj \in FileLens :
             \E c \in [1..kj[1] -> LoadContractRows], e \in [1..kj[2] -> LoadEnrollRows] :
                files = [NoFiles EXCEPT !.contract = File(c), !.enroll = File(e)]
       \/ \E k \in 1..MaxSideRows : \E r \in [1..k -> LoadSaRows] :
             files = [NoFiles EXCEPT !.sa = File(r)]
       \/ \E k \in 1..MaxSideRows : \E r \in [1..k -> LoadPenRows] :
             files = [NoFiles EXCEPT !.pen = File(r)]
    /\ ret = Idle
    /\ ma_data = <<>> /\ mapd_data = <<>>
    /\ loc = NoLocals /\ out = <<>> /\ ncalls = 0

LoadMonth ==
    /\ ret = Idle
    /\ \E m \in Months, y \in Years : \E o \in load_month(files, m, y) :
          ret' = [fn |-> "load_month", m |-> m, y |-> y] @@ o
    /\ Untouched

LoadMonthSa ==
    /\ ret = Idle
    /\ \E m \in Months, y \in Years : \E o \in load_month_sa(files, m, y) :
          ret' = [fn |-> "load_month_sa", m |-> m, y |-> y] @@ o
    /\ Untouched

LoadMonthPen ==
    /\ ret = Idle
    /\ \E m \in Months, y \in Years : \E o \in load_month_pen(files, m, y) :
          ret' = [fn |-> "load_month_pen", m |-> m, y |-> y] @@ o
    /\ Untouched

NextLoad == LoadMonth \/ LoadMonthSa \/ LoadMonthPen

SpecLoad == InitLoad /\ [][NextLoad]_vars

----------------------------------------------------------------------------
(* Sorting, group-wise forward fill and outer join *)

\* the characters of the key columns, in code order
CodeOrder == <<"0", "1", "2", "A", "B", "H", "X", "Y", "x">>
Code(c) == CHOOSE i \in 1..Len(CodeOrder) : CodeOrder[i] = c

RECURSIVE TxtLess(_, _)
TxtLess(s, t) ==
    IF t = <<>> THEN FALSE
    ELSE IF s = <<>> THEN TRUE
    ELSE IF s[1] = t[1] THEN TxtLess(Tail(s), Tail(t))
    ELSE Code(s[1]) < Code(t[1])

\* the order of sort_values on one column: missing values last
ValLess(a, b) ==
    IF IsNA(a) THEN FALSE
    ELSE IF IsNA(b) THEN TRUE
    ELSE IF IsNum(a) THEN a.num < b.num
    ELSE TxtLess(a.txt, b.txt)

\* lexicographic order over the key columns, in the order given
RowLess(a, b, by) ==
    \E k \in 1..Len(by) :
        /\ \A j \in 1..(k - 1) : a[by[j]] = b[by[j]]
        /\ ValLess(a[by[k]], b[by[k]])

\* r put behind every row of the sorted S that does not come after it
InsertSorted(S, r, by) ==
    LET later == {p \in 1..Len(S) : RowLess(r, S[p], by)}
        at == IF later = {} THEN Len(S) + 1
              ELSE CHOOSE p \in later : \A q \in later : p <= q
    IN  SubSeq(S, 1, at - 1) \o <<r>> \o SubSeq(S, at, Len(S))

RECURSIVE SortValues(_, _)
\* DataFrame.sort_values(by): with several columns pandas sorts stably
SortValues(T, by) ==
    IF T = <<>> THEN <<>>
    ELSE InsertSorted(SortValues(SubSeq(T, 1, Len(T) - 1), by), T[Len(T)], by)

HasNAKey(r, keys) == \E k \in keys : IsNA(r[k])

\* The value of column col in row i after groupby(keys)[col].ffill().
\* groupby drops the rows with a missing key (dropna=True, the default):
\* they belong to no group, and the transform gives them a missing value.
FfillValue(T, i, col, keys) ==
    IF HasNAKey(T[i], keys) THEN NA
    ELSE IF ~IsNA(T[i][col]) THEN T[i][col]
    ELSE LET prev == {j \in 1..(i - 1) :
                        SameKey(T[j], T[i], keys) /\ ~IsNA(T[j][col])}
         IN  IF prev = {} THEN NA
             ELSE T[CHOOSE j \in prev : \A q \in prev : q <= j][col]

\* T[cols] = T.groupby(keys)[cols].ffill()
GroupFfill(T, keys, cols) ==
    [i \in 1..Len(T) |->
        [c \in DOMAIN T[i] |->
            IF c \in cols THEN FfillValue(T, i, c, keys) ELSE T[i][c]]]

\* a join that keeps only the left table's keys
MergeLeftOnly(L, R, keys, by, lcols, rcols) ==
    SortValues(LeftMerge(L, R, keys, rcols), by)

\* L.merge(R, on=keys, how="outer"): the left join, then the rows of R that
\* no row of L matches, the whole sorted by the keys
OuterMerge(L, R, keys, by, lcols, rcols) ==
    LET rightOnly == FilterSeq(R, {j \in 1..Len(R) :
                                     \A i \in 1..Len(L) : ~SameKey(L[i], R[j], keys)})
    IN  SortValues(LeftMerge(L, R, keys, rcols)
                   \o [j \in 1..Len(rightOnly) |-> rightOnly[j] @@ NARow(lcols)],
                   by)

----------------------------------------------------------------------------
(* mapd_clean_merge *)

KeyCols == {"contractid", "planid", "state", "county"}
KeyOrder == <<"contractid", "planid", "state", "county">>
FillCols == {"premium_partc", "premium_partd_basic", "premium_partd_supp",
             "premium_partd_total", "partd_deductible"}
MainCols == KeyCols \cup {"premium"}
SecCols == KeyCols \cup FillCols

Project(T, cols) == [i \in 1..Len(T) |-> [c \in cols |-> T[i][c]]]

\* a selection that still shares its columns with the caller's table
SelectShared(T, cols) == [tbl |-> Project(T, cols), shared |-> TRUE]

\* df[cols].copy(): a new table that shares nothing with the caller's
SelectCopy(T, cols) == [tbl |-> Project(T, cols), shared |-> FALSE]

\* the caller's table after frame[col] = values: touched only when the
\* frame shares its columns with it
AfterAssign(caller, frame, col, values) ==
    IF frame.shared
    THEN [i \in 1..Len(caller) |-> [caller[i] EXCEPT ![col] = values[i][col]]]
    ELSE caller

\* mapd_data["planid"] = pd.to_numeric(mapd_data["planid"], errors="coerce")
CoercePlanid(T) ==
    [i \in 1..Len(T) |-> [T[i] EXCEPT !.planid = ToNumericCoerce(@)]]

\* sort, fill within the key groups, keep the first row of each group
CleanTable(T, cols) ==
    LET sorted == SortValues(T, KeyOrder)
        filled == GroupFfill(sorted, KeyCols, cols)
    IN  [sorted |-> sorted, filled |-> filled,
         clean |-> DropDuplicates(filled, KeyCols)]

\* One call: the locals on the way, the table returned, and the caller's
\* two tables afterwards.
mapd_clean_merge(ma, mapd, y) ==
    LET ma_sel  == SelectCopy(ma, MainCols)
        ma_c    == CleanTable(ma_sel.tbl, {"premium"})
        sec_sel == SelectCopy(mapd, SecCols)
        coerced == CoercePlanid(sec_sel.tbl)
        sec_c   == CleanTable(coerced, FillCols)
        merged  == OuterMerge(ma_c.clean, sec_c.clean, KeyCols, KeyOrder,
                              {"premium"}, FillCols)
    IN  [loc |-> [called |-> TRUE, y |-> y,
                  ma_sorted |-> ma_c.sorted, ma_filled |-> ma_c.filled,
                  ma_clean |-> ma_c.clean,
                  mapd_coerced |-> coerced,
                  mapd_sorted |-> sec_c.sorted, mapd_filled |-> sec_c.filled,
                  mapd_clean |-> sec_c.clean],
         out |-> [i \in 1..Len(merged) |-> merged[i] @@ [year |-> y]],
         ma_after |-> ma,
         mapd_after |-> AfterAssign(mapd, sec_sel, "planid", coerced)]

----------------------------------------------------------------------------
(* Specification of the premium merge *)

MergeYear == {Num(2015), Num(2016)}

\* (contractid, planid, state, county) of the main table: a plan in a
\* county, the same plan of another contract, a plan with no county (a
\* contract row that load_month left unmatched), a row with no planid
MainKeys ==
    {[contractid |-> Txt(H1), planid |-> Num(1), state |-> Txt(<<"A">>), county |-> Txt(<<"X">>)],
     [contractid |-> Txt(H2), planid |-> Num(1), state |-> Txt(<<"A">>), county |-> Txt(<<"X">>)],
     [contractid |-> Txt(H1), planid |-> Num(1), state |-> NA, county |-> NA],
     [contractid |-> Txt(H1), planid |-> NA, state |-> Txt(<<"A">>), county |-> Txt(<<"X">>)]}

MainRows ==
    {k @@ [premium |-> v, enrollment |-> Num(5)] :
        k \in MainKeys, v \in {NA, Num(10), Num(20)}}

\* the secondary table spells planid as text
SecKeys ==
    {[contractid |-> Txt(H1), planid |-> Txt(p), state |-> Txt(<<"A">>), county |-> Txt(<<"X">>)] :
        p \in {<<"1">>, <<"0", "1">>, <<"2">>, <<"x">>}}

SecValues ==
    {[premium_partc |-> Num(7), premium_partd_basic |-> NA,
      premium_partd_supp |-> Num(7), premium_partd_total |-> NA,
      partd_deductible |-> Num(7)],
     [premium_partc |-> NA, premium_partd_basic |-> Num(8),
      premium_partd_supp |-> NA, premium_partd_total |-> Num(8),
      partd_deductible |-> NA]}

SecRows == {k @@ v @@ [plan_name |-> Txt(<<"A">>)] : k \in SecKeys, v \in SecValues}

\* the lengths the two tables may have together
TableLens == {kj \in (0..MaxRows) \X (0..MaxRows) : kj[1] + kj[2] <= MaxRows}

InitMerge ==
    /\ \E kj \in TableLens :
          /\ ma_data \in [1..kj[1] -> MainRows]
          /\ mapd_data \in [1..kj[2] -> SecRows]
    /\ files = NoFiles
    /\ ret = Idle
    /\ loc = NoLocals /\ out = <<>> /\ ncalls = 0

MapdCleanMerge ==
    /\ ncalls < MaxCalls
    /\ \E y \in MergeYear : \E r \in {mapd_clean_merge(ma_data, mapd_data, y)} :
          /\ loc' = r.loc
          /\ out' = r.out
          /\ ma_data' = r.ma_after
          /\ mapd_data' = r.mapd_after
    /\ ncalls' = ncalls + 1
    /\ UNCHANGED <<files, ret>>

NextMerge == MapdCleanMerge

SpecMerge == InitMerge /\ [][NextMerge]_vars

----------------------------------------------------------------------------
(* What the claims speak of, stated apart from the model's own operators *)

DigitChars == <<"0", "1", "2", "3", "4", "5", "6", "7", "8", "9">>

CharDigit(c) == (CHOOSE d \in 1..10 : DigitChars[d] = c) - 1

RECURSIVE DecimalOf(_, _)
DecimalOf(s, acc) ==
    IF s = <<>> THEN acc ELSE DecimalOf(Tail(s), 10 * acc + CharDigit(s[1]))

\* s spells an integer: digits, after an optional minus sign
SpellsInteger(s) ==
    /\ s # <<>>
    /\ \A i \in 1..Len(s) : s[i] \in Range(DigitChars)
                            \/ (i = 1 /\ s[1] = "-" /\ Len(s) > 1)

IntegerSpelled(s) ==
    IF s[1] = "-" THEN 0 - DecimalOf(Tail(s), 0) ELSE DecimalOf(s, 0)

\* the integer value of an argument supplied as a number or as text
IntegerOf(a) == IF IsNum(a) THEN a.num ELSE IntegerSpelled(a.txt)

PairOf(r) == <<r.contractid, r.planid>>
PairsOf(T) == {PairOf(T[i]) : i \in 1..Len(T)}
RowsWithPair(T, p) == {i \in 1..Len(T) : PairOf(T[i]) = p}

Max(a, b) == IF a >= b THEN a ELSE b

ReaderFns == {"read_contract", "read_enroll", "read_service_area", "read_penetration"}
LoaderFns == {"load_month", "load_month_sa", "load_month_pen"}
LoadedOk(fn) == ret.fn = fn /\ ret.status = "ok"

----------------------------------------------------------------------------
(* C4 *)

FileRead ==
    CASE ret.fn = "read_contract" -> files.contract
      [] ret.fn = "read_enroll" -> files.enroll
      [] ret.fn = "read_service_area" -> files.sa
      [] ret.fn = "read_penetration" -> files.pen

\* C4: _read_csv_with_fallback attempts UTF-8 first and Latin-1 second, the
\* second exactly when the first failed with a decode error (which takes
\* bytes that are not UTF-8); a missing file, any other failure of the
\* first attempt and any failure of the second propagate, and then no
\* table is returned.
C4_FallbackOrder ==
    ret.fn \in ReaderFns =>
        /\ ret.attempts \in {<<"utf-8">>, <<"utf-8", "latin-1">>}
        /\ (Len(ret.attempts) = 2 <=> ret.first = "UnicodeDecodeError")
        /\ (Len(ret.attempts) = 2 =>
               /\ ret.fn = "read_contract"
               /\ \E i \in 1..Len(files.contract.rows) :
                      ~Utf8Valid(files.contract.rows[i].org_name))
        /\ (ret.first \notin {"none", "UnicodeDecodeError"} =>
               ret.status = "raised" /\ ret.error = ret.first)
        /\ (~FileRead.exists =>
               ret.status = "raised" /\ ret.error = "FileNotFoundError")
        /\ (ret.status = "raised" => ret.error # "none" /\ ret.table = <<>>)
        /\ (ret.status = "ok" => ret.error = "none"
                                 /\ Len(ret.table) = Len(FileRead.rows))

\* a Latin-1 retry that succeeded and returned the Latin-1 text
C4_Witness ==
    /\ ret.fn = "read_contract"
    /\ ret.attempts = <<"utf-8", "latin-1">>
    /\ ret.status = "ok"
    /\ Len(ret.table) = 1
    /\ ret.table[1].org_name = Str(<<233>>)

----------------------------------------------------------------------------
(* C5 *)

\* C5: read_contract turns an absent or malformed planid cell into a
\* missing value; such a cell does not make the read fail.
C5_MalformedPlanidMissing ==
    (ret.fn = "read_contract" /\ files.contract.exists) =>
        /\ ret.status = "ok"
        /\ \A i \in 1..Len(files.contract.rows) :
              ~SpellsInteger(files.contract.rows[i].planid)
                  => ret.table[i].planid = NA

----------------------------------------------------------------------------
(* C6 *)

\* C6: in read_penetration each of eligibles, enrolled and penetration is
\* missing for the cells "", "NA", "*", "-" and "--", is the number spelled
\* by the cell once every comma and percent sign is removed, and is missing
\* when what remains spells no number; the read never fails on such a cell.
C6_PenetrationCleanup ==
    (ret.fn = "read_penetration" /\ files.pen.exists) =>
        /\ ret.status = "ok"
        /\ \A i \in 1..Len(files.pen.rows) : \A col \in PenCols :
              LET c == files.pen.rows[i][col]
                  v == ret.table[i][col]
                  rest == SelectSeq(c, LAMBDA ch : ch \notin {",", "%"})
              IN  IF c \in {<<>>, <<"N", "A">>, <<"*">>, <<"-">>, <<"-", "-">>}
                  THEN v = NA
                  ELSE IF SpellsInteger(rest) THEN v = Num(IntegerSpelled(rest))
                  ELSE v = NA

\* the cell "1,2" read as the number 12
C6_Witness ==
    /\ LoadedOk("read_penetration")
    /\ files.pen.rows[1].enrolled = <<"1", ",", "2">>
    /\ ret.table[1].enrolled = Num(12)

----------------------------------------------------------------------------
(* C1 *)

\* C1 as claimed: the output of load_month holds exactly one row for every
\* distinct (contractid, planid) pair of the contract table.
C1_OneRowPerPair ==
    LoadedOk("load_month") =>
        \A p \in PairsOf(ret.contract_read) :
            Cardinality(RowsWithPair(ret.table, p)) = 1

\* C1 amended: the output of load_month holds, for every distinct pair of
\* the contract table, one row per enrollment row of that pair, and one row
\* when there is none; duplicate pairs of the contract table add no row.
C1_RowsPerPair ==
    LoadedOk("load_month") =>
        /\ \A p \in PairsOf(ret.contract_read) :
              Cardinality(RowsWithPair(ret.table, p))
                  = Max(1, Cardinality(RowsWithPair(ret.enroll_info, p)))
        /\ \A k \in 1..Len(ret.table) :
              PairOf(ret.table[k]) \in PairsOf(ret.contract_read)

\* a contract file with a duplicate pair, matched by one enrollment row
C1_Witness ==
    /\ LoadedOk("load_month")
    /\ Cardinality(PairsOf(ret.contract_read)) < Len(ret.contract_read)
    /\ \E p \in PairsOf(ret.contract_read) :
          /\ Cardinality(RowsWithPair(ret.enroll_info, p)) = 1
          /\ Cardinality(RowsWithPair(ret.table, p)) = 1

----------------------------------------------------------------------------
(* C2 *)

ContractCols == {"contractid", "planid", "org_name"}

FirstOfPair(C, i) == \A j \in 1..(i - 1) : PairOf(C[j]) # PairOf(C[i])

\* C2: every first occurrence of a pair in the contract table is in the
\* output of load_month with its contract columns unchanged; one that no
\* enrollment row matches is there once, with ssa, fips, state, county and
\* enrollment missing; and every output row has a pair of the contract
\* table.
C2_LeftJoinKeepsContracts ==
    LoadedOk("load_month") =>
        LET T == ret.table
            C == ret.contract_read
            E == ret.enroll_info
        IN  /\ \A i \in 1..Len(C) : FirstOfPair(C, i) =>
                  LET rows == RowsWithPair(T, PairOf(C[i]))
                  IN  /\ rows # {}
                      /\ \A k \in rows : \A col \in ContractCols :
                             T[k][col] = C[i][col]
                      /\ RowsWithPair(E, PairOf(C[i])) = {} =>
                             /\ Cardinality(rows) = 1
                             /\ \A k \in rows : \A col \in EnrollCols :
                                    T[k][col] = NA
            /\ \A k \in 1..Len(T) : PairOf(T[k]) \in PairsOf(C)

\* a contract row without enrollment beside one with enrollment
C2_Witness ==
    /\ LoadedOk("load_month")
    /\ \E i \in 1..Len(ret.contract_read) :
          /\ RowsWithPair(ret.enroll_info, PairOf(ret.contract_read[i])) = {}
          /\ \E k \in RowsWithPair(ret.table, PairOf(ret.contract_read[i])) :
                ret.table[k].enrollment = NA
    /\ \E k \in 1..Len(ret.table) : ret.table[k].enrollment = Num(5)

----------------------------------------------------------------------------
(* C7 *)

\* C7 as claimed: every row a month loader returns carries month, the
\* integer value of m, and year, the supplied y as an integer.
C7_IntegerMonthAndYear ==
    (ret.fn \in LoaderFns /\ ret.status = "ok") =>
        \A i \in 1..Len(ret.table) :
            /\ ret.table[i].month = Num(IntegerOf(ret.m))
            /\ ret.table[i].year = Num(IntegerOf(ret.y))

\* C7 amended: every row a month loader returns carries month, the integer
\* value of m also when m is text, and year, the supplied y as it was
\* supplied: an integer when y is an integer, the same text when y is text.
C7_MonthIntegerYearAsSupplied ==
    (ret.fn \in LoaderFns /\ ret.status = "ok") =>
        \A i \in 1..Len(ret.table) :
            /\ ret.table[i].month = Num(IntegerOf(ret.m))
            /\ ret.table[i].year = ret.y
            /\ (IsNum(ret.y) => ret.table[i].year = Num(IntegerOf(ret.y)))

\* load_month_sa called with the month as the text "01"
C7_Witness ==
    /\ LoadedOk("load_month_sa")
    /\ ret.m = Txt(<<"0", "1">>)
    /\ Len(ret.table) >= 1
    /\ \A i \in 1..Len(ret.table) : ret.table[i].month = Num(1)

----------------------------------------------------------------------------
(* C3 *)

KeyOfRow(r) == [c \in KeyCols |-> r[c]]

\* the key of a secondary row, its planid read as a number
NumericKeyOfRow(r) ==
    [KeyOfRow(r) EXCEPT !.planid =
        IF IsTxt(@)
        THEN IF SpellsInteger(@.txt) THEN Num(IntegerSpelled(@.txt)) ELSE NA
        ELSE @]

MainKeySet == {KeyOfRow(ma_data[i]) : i \in 1..Len(ma_data)}
SecKeySet == {NumericKeyOfRow(mapd_data[i]) : i \in 1..Len(mapd_data)}
OutRowsWithKey(k) == {i \in 1..Len(out) : KeyOfRow(out[i]) = k}

\* C3: the output of mapd_clean_merge holds exactly one row for every key
\* (contractid, planid, state, county) of either input, the secondary
\* planid taken as a number; the row of a key of both inputs carries both
\* sides' columns, the row of a key of the secondary table alone has no
\* premium, the row of a key of the main table alone has none of the five
\* secondary fields; and the output holds no other key.
C3_OneRowPerKey ==
    ncalls >= 1 =>
        /\ \A k \in MainKeySet \cup SecKeySet :
              Cardinality(OutRowsWithKey(k)) = 1
        /\ \A i \in 1..Len(out) :
              LET k == KeyOfRow(out[i])
              IN  /\ k \in MainKeySet \cup SecKeySet
                  /\ DOMAIN out[i] = KeyCols \cup {"premium", "year"} \cup FillCols
                  /\ k \notin MainKeySet => IsNA(out[i].premium)
                  /\ k \notin SecKeySet => \A c \in FillCols : IsNA(out[i][c])

\* the secondary planid "01" joins the main planid 1, and the secondary
\* plan "2" has no main row
C3_Witness ==
    /\ ncalls >= 1
    /\ Len(ma_data) = 1 /\ Len(mapd_data) = 2
    /\ ma_data[1].planid = Num(1) /\ ma_data[1].premium = Num(10)
    /\ mapd_data[1].planid = Txt(<<"0", "1">>)
    /\ mapd_data[2].planid = Txt(<<"2">>)
    /\ Len(out) = 2
    /\ \E i \in 1..2 : out[i].premium = Num(10) /\ out[i].premium_partc = Num(7)
    /\ \E i \in 1..2 : out[i].planid = Num(2) /\ IsNA(out[i].premium)

----------------------------------------------------------------------------
(* C8 *)

----------------------------------------------------------------------------
(* C9 *)

\* table A is table B forward-filled in the columns cols, as C9 has it
FilledWithinGroups(B, A, cols) ==
    /\ Len(A) = Len(B)
    /\ \A i \in 1..Len(B) : \A c \in cols :
          IF ~IsNA(B[i][c]) THEN A[i][c] = B[i][c]
          ELSE LET prev == {j \in 1..(i - 1) :
                              KeyOfRow(B[j]) = KeyOfRow(B[i]) /\ ~IsNA(B[j][c])}
               IN  A[i][c] = IF prev = {} THEN NA
                             ELSE B[CHOOSE j \in prev : \A q \in prev : q <= j][c]

\* C9: the forward fill of mapd_clean_merge replaces a missing value by the
\* nearest preceding non-missing value of the same column and key tuple,
\* leaves it missing when there is none, and never changes a non-missing
\* value.
C9_ForwardFill ==
    ncalls >= 1 =>
        /\ FilledWithinGroups(loc.ma_sorted, loc.ma_filled, {"premium"})
        /\ FilledWithinGroups(loc.mapd_sorted, loc.mapd_filled, FillCols)

----------------------------------------------------------------------------
(* C10 *)

\* table C keeps, for every key of table B, one row with the values the
\* first row of that key has in B
KeepsFirstOriginal(B, C, cols) ==
    \A i \in 1..Len(B) :
        (\A j \in 1..(i - 1) : KeyOfRow(B[j]) # KeyOfRow(B[i])) =>
            LET rows == {k \in 1..Len(C) : KeyOfRow(C[k]) = KeyOfRow(B[i])}
            IN  /\ Cardinality(rows) = 1
                /\ \A k \in rows : \A c \in cols : C[k][c] = B[i][c]

\* C10: the value each cleaned table of mapd_clean_merge keeps for a key
\* is the value the first row of the key's group had before the fill.
C10_FirstRowOriginal ==
    ncalls >= 1 =>
        /\ KeepsFirstOriginal(loc.ma_sorted, loc.ma_clean, {"premium"})
        /\ KeepsFirstOriginal(loc.mapd_sorted, loc.mapd_clean, FillCols)

====
